---- MODULE Spec2Model ----
(***************************************************************************)
(* State-machine model of the LET executor of rcl_executor                 *)
(* (src/rcl_executor/src/let_executor.c): the handle table, the wait-set   *)
(* lifecycle, the two-phase scheduling round and the spin drivers.         *)
(*                                                                         *)
(* The executor is single-threaded: pc is the position of the one thread   *)
(* of control.  pc = "idle" means that no API call is in progress; the     *)
(* short calls (init, set_timeout, fini, the adds) are one step each, and  *)
(* spin_some is a chain of steps, one per external call it makes, so that  *)
(* what callbacks publish during phase 2 is visible between the steps.     *)
(***************************************************************************)
EXTENDS Integers, Sequences, FiniteSets, TLC

\* ------------------------------------------------------------------ bounds
MaxHandles == 2          \* largest capacity passed to init
MaxMsgs == 1             \* messages published in one behaviour
MaxTime == 4             \* the system clock is cut off here
MaxPeriod == 2           \* largest period passed to spin_one_period

\* ------------------------------------------------------- program constants
DEFAULT_WAIT_TIMEOUT_MS == 100000000

NULL == "NULL"
CTX == "context"
ALLOC == "allocator"
CB == "callback"
SubRefs == {"s1"}
TimerRefs == {"t1"}
OtherTimeouts == {0}

SUBSCRIPTION == "SUBSCRIPTION"
TIMER == "TIMER"
NONE == "NONE"
ON_NEW_DATA == "ON_NEW_DATA"
ALWAYS == "ALWAYS"

RCL_RET_OK == "RCL_RET_OK"
RCL_RET_ERROR == "RCL_RET_ERROR"
RCL_RET_TIMEOUT == "RCL_RET_TIMEOUT"
RCL_RET_BAD_ALLOC == "RCL_RET_BAD_ALLOC"
RCL_RET_INVALID_ARGUMENT == "RCL_RET_INVALID_ARGUMENT"
RCL_RET_SUBSCRIPTION_TAKE_FAILED == "RCL_RET_SUBSCRIPTION_TAKE_FAILED"
RCL_RET_WAIT_SET_FULL == "RCL_RET_WAIT_SET_FULL"

\* the value of the return-code history variable while a call is running
RUNNING == "running"
\* the outcome of dereferencing the absent handle table
CRASH == "crash"

VARIABLES
  \* ---- rcle_let_executor_t
  context, handles, max_handles, index, allocator, timeout_ns,
  invocation_time, info, wait_set,
  \* ---- the thread of control: position, loop index, the drivers entered,
  \* ---- and the locals period, timeout_ns (of spin_some) and ret (of spin)
  pc, i, stack, period, timeout_arg, ret,
  \* ---- the collaborators: subscription queues, message counter, clock,
  \* ---- and whether the execution context is still valid
  queue, next_msg, now, ctx_valid,
  \* ---- history (never read by the modelled code)
  lastOp, lastRet, round_calls, da_set, phase2_pub, wait_rc, take_failed,
  intake_err, fresh_idx,
  leaked, lifecycle, add_invalidated,
  period_start, period_sum_ok, period_sum_all,
  spin_err, period_ret,
  undelivered, lost

execVars == <<context, handles, max_handles, index, allocator, timeout_ns,
              invocation_time, info, wait_set>>
ctlVars == <<pc, i, stack, period, timeout_arg, ret>>
envQueue == <<queue, next_msg>>
envVars == <<envQueue, now, ctx_valid>>
roundHist == <<round_calls, da_set, phase2_pub, wait_rc, take_failed,
              intake_err>>
periodHist == <<period_start, period_sum_ok, period_sum_all>>
loopHist == <<spin_err, period_ret>>
msgHist == <<undelivered, lost>>
histVars == <<lastOp, lastRet, roundHist, fresh_idx, leaked, lifecycle,
              add_invalidated, periodHist, loopHist, msgHist>>
vars == <<execVars, ctlVars, envVars, histVars>>

\* --------------------------------------------------------------- data types
\* The handle table is a function on 0 .. max_handles-1; the absent table
\* (handles == NULL in the source) is the function with the empty domain.
NullHandles == <<>>

\* rcle_handle_init: the entry of unused capacity; its wait-set index is put
\* out of range (the table size).
rcle_handle_init(n) ==
  [type |-> NONE, invocation |-> ON_NEW_DATA, subscription |-> NULL,
   timer |-> NULL, data |-> 0, callback |-> NULL, index |-> n,
   initialized |-> FALSE, data_available |-> FALSE]

\* rcle_handle_size_zero_init
rcle_handle_size_zero_init ==
  [number_of_subscriptions |-> 0, number_of_timers |-> 0,
   number_of_guard_conditions |-> 0, number_of_clients |-> 0,
   number_of_services |-> 0, number_of_events |-> 0]

\* rcl_get_zero_initialized_wait_set: the absent wait-set.  A valid wait-set
\* holds, per kind, one entry per slot: the registered resource, or NULL when
\* the slot is unused or (after rcl_wait) not ready.
rcl_get_zero_initialized_wait_set ==
  [valid |-> FALSE, subscriptions |-> <<>>, timers |-> <<>>,
   subscription_index |-> 0, timer_index |-> 0]

rcl_wait_set_is_valid(ws) == ws.valid

\* rcl_wait_set_fini leaves the wait-set absent, whatever it returns.
rcl_wait_set_fini(ws) == rcl_get_zero_initialized_wait_set

\* rcl_wait_set_init on success: slots sized by the per-type counts.
rcl_wait_set_init(nsubs, ntimers) ==
  [valid |-> TRUE,
   subscriptions |-> [k \in 1..nsubs |-> NULL],
   timers |-> [k \in 1..ntimers |-> NULL],
   subscription_index |-> 0, timer_index |-> 0]

\* rcl_wait_set_clear: every slot back to NULL, the fill counters to 0.
rcl_wait_set_clear(ws) ==
  [ws EXCEPT !.subscriptions = [k \in DOMAIN ws.subscriptions |-> NULL],
             !.timers = [k \in DOMAIN ws.timers |-> NULL],
             !.subscription_index = 0, !.timer_index = 0]

\* rcl_context_is_valid: false for the NULL context and after shutdown.
rcl_context_is_valid(ctx) == ctx # NULL /\ ctx_valid

\* _rcle_let_executor_is_valid
rcle_let_executor_is_valid ==
  /\ handles # NullHandles
  /\ allocator # NULL
  /\ max_handles # 0

\* ------------------------------------------------------------ initial state
\* rcle_let_executor_get_zero_initialized_executor
Init ==
  /\ context = NULL
  /\ handles = NullHandles
  /\ max_handles = 0
  /\ index = 0
  /\ allocator = NULL
  /\ timeout_ns = 0
  /\ invocation_time = 0
  /\ info = rcle_handle_size_zero_init
  /\ wait_set = rcl_get_zero_initialized_wait_set
  /\ pc = "idle"
  /\ i = 0
  /\ stack = <<>>
  /\ period = 0
  /\ timeout_arg = 0
  /\ ret = RCL_RET_OK
  /\ ctx_valid = TRUE
  /\ queue = [s \in SubRefs |-> <<>>]
  /\ next_msg = 1
  /\ now = 1
  /\ lastOp = "none"
  /\ lastRet = RCL_RET_OK
  /\ round_calls = <<>>
  /\ da_set = {}
  /\ phase2_pub = {}
  /\ fresh_idx = {}
  /\ leaked = FALSE
  /\ lifecycle = "zero"
  /\ wait_rc = "none"
  /\ take_failed = {}
  /\ intake_err = "none"
  /\ add_invalidated = FALSE
  /\ period_start = 0
  /\ period_sum_ok = 0
  /\ period_sum_all = 0
  /\ spin_err = "none"
  /\ period_ret = "none"
  /\ undelivered = {}
  /\ lost = {}

\* The round history of the previous spin_some is dropped.
NewRound ==
  /\ round_calls' = <<>>
  /\ da_set' = {}
  /\ phase2_pub' = {}
  /\ wait_rc' = "none"
  /\ take_failed' = {}
  /\ intake_err' = "none"

\* What every call records when it starts: its name, and a fresh round
\* history.
Called(op) ==
  /\ lastOp' = op
  /\ NewRound

\* ------------------------------------------------------------------- init
rcle_let_executor_init(n, args_ok, alloc_ok) ==
  /\ pc = "idle"
  /\ Called("init")
  /\ IF ~args_ok \/ n = 0
     THEN /\ lastRet' = RCL_RET_INVALID_ARGUMENT
          /\ UNCHANGED <<execVars, fresh_idx, leaked, lifecycle, add_invalidated,
                         msgHist>>
     ELSE /\ context' = CTX
          /\ max_handles' = n
          /\ index' = 0
          /\ wait_set' = rcl_get_zero_initialized_wait_set
          /\ allocator' = ALLOC
          /\ timeout_ns' = DEFAULT_WAIT_TIMEOUT_MS
          /\ fresh_idx' = {}
          /\ add_invalidated' = FALSE
          \* a wait-set that was valid is overwritten without being destroyed
          /\ leaked' = (leaked \/ rcl_wait_set_is_valid(wait_set))
          \* the data slots of the old table are out of reach
          /\ undelivered' = {}
          /\ lost' = {}
          /\ UNCHANGED invocation_time
          /\ IF alloc_ok
             THEN /\ handles' = [k \in 0..(n-1) |-> rcle_handle_init(n)]
                  /\ info' = rcle_handle_size_zero_init
                  /\ lastRet' = RCL_RET_OK
                  /\ lifecycle' = "initialized"
             ELSE /\ handles' = NullHandles
                  /\ UNCHANGED info
                  /\ lastRet' = RCL_RET_BAD_ALLOC
                  /\ lifecycle' = "init_failed"
  /\ UNCHANGED <<ctlVars, envVars, periodHist, loopHist>>

\* ------------------------------------------------------------ set_timeout
rcle_let_executor_set_timeout(t) ==
  /\ pc = "idle"
  /\ Called("set_timeout")
  /\ IF rcle_let_executor_is_valid
     THEN /\ timeout_ns' = t
          /\ lastRet' = RCL_RET_OK
     ELSE /\ lastRet' = RCL_RET_ERROR
          /\ UNCHANGED timeout_ns
  /\ UNCHANGED <<context, handles, max_handles, index, allocator,
                 invocation_time, info, wait_set>>
  /\ UNCHANGED <<ctlVars, envVars, fresh_idx, leaked, lifecycle,
                 add_invalidated, periodHist, loopHist, msgHist>>

\* ------------------------------------------------------------------- fini
rcle_let_executor_fini_skip_check ==
  /\ pc = "idle"
  /\ Called("fini")
  /\ handles' = NullHandles
  /\ max_handles' = 0
  /\ index' = 0
  /\ info' = rcle_handle_size_zero_init
  /\ wait_set' = rcl_wait_set_fini(wait_set)
  /\ fresh_idx' = {}
  /\ timeout_ns' = DEFAULT_WAIT_TIMEOUT_MS
  /\ lastRet' = RCL_RET_OK
  /\ lifecycle' = "finalized"
  /\ add_invalidated' = FALSE
  /\ undelivered' = {}
  /\ lost' = {}
  /\ UNCHANGED <<context, allocator, invocation_time, leaked>>
  /\ UNCHANGED <<ctlVars, envVars, periodHist, loopHist>>

rcle_let_executor_fini ==
  /\ pc = "idle"
  /\ Called("fini")
  /\ IF rcle_let_executor_is_valid
     THEN /\ handles' = NullHandles
          /\ max_handles' = 0
          /\ index' = 0
          /\ info' = rcle_handle_size_zero_init
          /\ wait_set' = IF rcl_wait_set_is_valid(wait_set)
                         THEN rcl_wait_set_fini(wait_set)
                         ELSE wait_set
          /\ fresh_idx' = {}
          /\ add_invalidated' = FALSE
          /\ timeout_ns' = DEFAULT_WAIT_TIMEOUT_MS
          /\ undelivered' = {}
          /\ lost' = {}
          /\ UNCHANGED <<context, allocator, invocation_time>>
     ELSE /\ UNCHANGED <<execVars, fresh_idx, add_invalidated, msgHist>>
  /\ lastRet' = RCL_RET_OK
  /\ lifecycle' = "finalized"
  /\ UNCHANGED <<ctlVars, envVars, leaked, periodHist, loopHist>>

\* --------------------------------------------------------- add_subscription
\* The array bound check of both add functions.
HandlesFullOffByOne == index > max_handles

HandlesFull == index >= max_handles

\* "invalidate wait_set so that in next spin_some() call the
\* 'executor->wait_set' is updated accordingly"
KeepWaitSet(ws) == ws

InvalidateWaitSet(ws) ==
  IF rcl_wait_set_is_valid(ws) THEN rcl_wait_set_fini(ws) ELSE ws

\* The write of entry handles[index]; behind the end of the table nothing of
\* the model is written.
StoreHandle(h) ==
  IF index \in DOMAIN handles THEN [handles EXCEPT ![index] = h] ELSE handles

\* The entry the add functions fill in.
NewEntry ==
  IF index \in DOMAIN handles THEN handles[index] ELSE rcle_handle_init(max_handles)

\* The part both add functions share once the entry is written.
AddTail ==
  /\ index' = index + 1
  /\ wait_set' = InvalidateWaitSet(wait_set)
  /\ fresh_idx' = IF rcl_wait_set_is_valid(wait_set) /\ ~rcl_wait_set_is_valid(wait_set')
                  THEN {} ELSE fresh_idx
  /\ add_invalidated' = (add_invalidated \/ rcl_wait_set_is_valid(wait_set))
  /\ lastRet' = RCL_RET_OK
  /\ UNCHANGED <<context, max_handles, allocator, timeout_ns, invocation_time>>
  /\ UNCHANGED ctlVars

\* Dereferencing the absent handle table: the process ends.
Crash ==
  /\ pc' = "crashed"
  /\ lastRet' = CRASH
  /\ UNCHANGED <<execVars, i, stack, period, timeout_arg, ret, fresh_idx,
                 add_invalidated>>

rcle_let_executor_add_subscription(sub, invocation, args_ok) ==
  /\ pc = "idle"
  /\ Called("add_subscription")
  /\ IF ~args_ok
     THEN /\ lastRet' = RCL_RET_INVALID_ARGUMENT
          /\ UNCHANGED <<execVars, ctlVars, fresh_idx, add_invalidated>>
     ELSE IF HandlesFull
     THEN /\ lastRet' = RCL_RET_ERROR
          /\ UNCHANGED <<execVars, ctlVars, fresh_idx, add_invalidated>>
     ELSE IF handles = NullHandles
     THEN Crash
     ELSE /\ handles' = StoreHandle(
                [NewEntry EXCEPT !.type = SUBSCRIPTION,
                                       !.subscription = sub,
                                       !.data = 0,
                                       !.callback = CB,
                                       !.invocation = invocation,
                                       !.initialized = TRUE])
          /\ info' = [info EXCEPT !.number_of_subscriptions = @ + 1]
          /\ AddTail
  /\ UNCHANGED <<envVars, leaked, lifecycle, periodHist, loopHist, msgHist>>

\* ---------------------------------------------------------------- add_timer
\* "executor->handles[executor->index].invocation = ON_NEW_DATA;
\*  i.e. when timer elapsed"
TimerInvocationAlways == ALWAYS

TimerInvocation == ON_NEW_DATA

rcle_let_executor_add_timer(timer, args_ok) ==
  /\ pc = "idle"
  /\ Called("add_timer")
  /\ IF ~args_ok
     THEN /\ lastRet' = RCL_RET_INVALID_ARGUMENT
          /\ UNCHANGED <<execVars, ctlVars, fresh_idx, add_invalidated>>
     ELSE IF HandlesFull
     THEN /\ lastRet' = RCL_RET_ERROR
          /\ UNCHANGED <<execVars, ctlVars, fresh_idx, add_invalidated>>
     ELSE IF handles = NullHandles
     THEN Crash
     ELSE /\ handles' = StoreHandle(
                [NewEntry EXCEPT !.type = TIMER,
                                       !.timer = timer,
                                       !.invocation = TimerInvocation,
                                       !.initialized = TRUE])
          /\ info' = [info EXCEPT !.number_of_timers = @ + 1]
          /\ AddTail
  /\ UNCHANGED <<envVars, leaked, lifecycle, periodHist, loopHist, msgHist>>

\* ------------------------------------------------------------ environment
\* A publisher outside the executor publishes the next message on s.
Publish(s) ==
  /\ pc = "idle"
  /\ next_msg <= MaxMsgs
  /\ queue' = [queue EXCEPT ![s] = Append(@, next_msg)]
  /\ next_msg' = next_msg + 1
  /\ UNCHANGED <<execVars, ctlVars, now, ctx_valid, histVars>>

\* ---------------------------------------------------------------- spin_some
\* The loop condition of the three loops over the handle table:
\* i < executor->max_handles && executor->handles[i].initialized
LoopCond(k) == k < max_handles /\ handles[k].initialized

\* The first evaluation of the loop condition reads handles[0] when
\* max_handles > 0: with the table absent that is a null dereference.
LoopDerefsNull == max_handles > 0 /\ handles = NullHandles

\* A step of spin_some that does not return.
Continue(nextpc, nexti) ==
  /\ pc' = nextpc
  /\ i' = nexti
  /\ lastRet' = RUNNING
  /\ UNCHANGED <<stack, period, ret, invocation_time, now, ctx_valid,
                 periodHist, loopHist>>

\* Line 499: the round results on which spin leaves its loop.
SpinStopsNever(rc) == FALSE

SpinStops(rc) == ~((rc = RCL_RET_OK) \/ (rc = RCL_RET_TIMEOUT))

\* Line 545: spin_period discards what spin_one_period returns.
SpinPeriodStopsOnError(rc) == rc # RCL_RET_OK

SpinPeriodStops(rc) == FALSE

\* spin_one_period returns result: to the caller of the API, or into the loop
\* of spin_period.
ReturnFromPeriod(result) ==
  /\ ret' = ret
  /\ spin_err' = spin_err
  /\ period_ret' = IF Len(stack) = 2 THEN result ELSE period_ret
  /\ IF Len(stack) = 2 /\ ~SpinPeriodStops(result)
     THEN /\ pc' = "period_loop"
          /\ stack' = <<"spin_period">>
          /\ lastRet' = RUNNING
     ELSE /\ pc' = "idle"
          /\ stack' = <<>>
          /\ lastRet' = result

\* spin_some returns rc: to the caller of the API when the stack is empty;
\* into the loop of spin (lines 498-502); or into spin_one_period, whose
\* remaining statements run here: the error return, or the sleep until
\* invocation_time + period and the advance of invocation_time.
AdvanceFromWakeUp(end_time_point) == end_time_point + period

AdvanceInvocationTime(end_time_point) == invocation_time + period

Return(rc) ==
  /\ i' = 0
  /\ UNCHANGED <<period, period_start, period_sum_all, ctx_valid>>
  /\ IF stack = <<>>
     THEN /\ pc' = "idle"
          /\ stack' = <<>>
          /\ lastRet' = rc
          /\ UNCHANGED <<invocation_time, now, period_sum_ok, ret, loopHist>>
     ELSE IF stack = <<"spin">>
     THEN /\ ret' = rc
          /\ spin_err' = IF spin_err = "none" /\ rc \notin {RCL_RET_OK, RCL_RET_TIMEOUT}
                         THEN rc ELSE spin_err
          /\ UNCHANGED <<invocation_time, now, period_sum_ok, period_ret>>
          /\ IF SpinStops(rc)
             THEN /\ pc' = "idle"
                  /\ stack' = <<>>
                  /\ lastRet' = rc
             ELSE /\ pc' = "spin_loop"
                  /\ stack' = stack
                  /\ lastRet' = RUNNING
     ELSE IF ~(rc = RCL_RET_OK \/ rc = RCL_RET_TIMEOUT)
     THEN /\ ReturnFromPeriod(rc)
          /\ UNCHANGED <<invocation_time, now, period_sum_ok>>
     ELSE LET end_time_point == now
              sleep_time == (invocation_time + period) - end_time_point
          IN  /\ now' = IF sleep_time > 0 THEN now + sleep_time ELSE now
              /\ invocation_time' = AdvanceInvocationTime(end_time_point)
              /\ period_sum_ok' = period_sum_ok + period
              /\ ReturnFromPeriod(RCL_RET_OK)

\* Lines 406-435: build the wait-set when it is absent, then clear it.
\* create_ok, clear_ok: what the Readiness Provider answers.
SpinSomeBegin(create_ok, clear_ok) ==
  LET build == ~rcl_wait_set_is_valid(wait_set)
      created == create_ok /\ rcl_context_is_valid(context)
      ws1 == IF build
             THEN rcl_wait_set_init(info.number_of_subscriptions,
                                    info.number_of_timers)
             ELSE wait_set
  IN  /\ UNCHANGED <<context, handles, max_handles, index, allocator,
                     timeout_ns, info, leaked, lifecycle, envQueue, msgHist>>
      /\ IF build /\ ~created
         THEN /\ wait_set' = rcl_get_zero_initialized_wait_set
              /\ UNCHANGED <<fresh_idx, add_invalidated>>
              /\ Return(RCL_RET_ERROR)
         ELSE IF ~clear_ok
         THEN /\ wait_set' = ws1
              /\ UNCHANGED <<fresh_idx, add_invalidated>>
              /\ Return(RCL_RET_ERROR)
         ELSE /\ wait_set' = rcl_wait_set_clear(ws1)
              /\ fresh_idx' = {}
              /\ UNCHANGED add_invalidated
              /\ Continue("ss_register", 0)

\* spin_some called through the API; the timeout the caller passes is one of
\* OtherTimeouts.
rcle_let_executor_spin_some(create_ok, clear_ok) ==
  /\ pc = "idle"
  /\ Called("spin_some")
  /\ timeout_arg' \in OtherTimeouts
  /\ SpinSomeBegin(create_ok, clear_ok)

\* spin_some entered from spin or spin_one_period
SpinSomeEntered(create_ok, clear_ok) ==
  /\ pc = "ss_begin"
  /\ UNCHANGED <<lastOp, roundHist, timeout_arg>>
  /\ SpinSomeBegin(create_ok, clear_ok)

\* rcl_wait_set_add_subscription / rcl_wait_set_add_timer on success: the
\* resource goes into the next free slot of its kind.
rcl_wait_set_add_subscription(ws, sub) ==
  [ws EXCEPT !.subscriptions[ws.subscription_index + 1] = sub,
             !.subscription_index = @ + 1]

rcl_wait_set_add_timer(ws, timer) ==
  [ws EXCEPT !.timers[ws.timer_index + 1] = timer,
             !.timer_index = @ + 1]

\* Lines 439-475: one iteration of the registration loop, or its end.
RegisterHandle(reg_ok) ==
  /\ pc = "ss_register"
  /\ UNCHANGED <<context, max_handles, index, allocator, timeout_ns, info,
                 leaked, lifecycle, envQueue, lastOp, roundHist, timeout_arg,
                 msgHist>>
  /\ IF LoopDerefsNull
     THEN /\ Crash
          /\ UNCHANGED <<now, ctx_valid, periodHist, loopHist>>
     ELSE IF ~LoopCond(i)
     THEN /\ UNCHANGED <<handles, wait_set, fresh_idx, add_invalidated>>
          /\ Continue("ss_wait", 0)
     ELSE LET h == handles[i] IN
       CASE h.type = SUBSCRIPTION ->
              IF wait_set.subscription_index >= Len(wait_set.subscriptions)
              THEN /\ UNCHANGED <<handles, wait_set, fresh_idx, add_invalidated>>
                   /\ Return(RCL_RET_WAIT_SET_FULL)
              ELSE IF ~reg_ok
              THEN /\ UNCHANGED <<handles, wait_set, fresh_idx, add_invalidated>>
                   /\ Return(RCL_RET_ERROR)
              ELSE /\ wait_set' = rcl_wait_set_add_subscription(wait_set, h.subscription)
                   /\ handles' = [handles EXCEPT ![i].index = wait_set.subscription_index]
                   /\ fresh_idx' = fresh_idx \cup {i}
                   /\ UNCHANGED add_invalidated
                   /\ Continue("ss_register", i + 1)
         [] h.type = TIMER ->
              IF wait_set.timer_index >= Len(wait_set.timers)
              THEN /\ UNCHANGED <<handles, wait_set, fresh_idx, add_invalidated>>
                   /\ Return(RCL_RET_WAIT_SET_FULL)
              ELSE IF ~reg_ok
              THEN /\ UNCHANGED <<handles, wait_set, fresh_idx, add_invalidated>>
                   /\ Return(RCL_RET_ERROR)
              ELSE /\ wait_set' = rcl_wait_set_add_timer(wait_set, h.timer)
                   /\ handles' = [handles EXCEPT ![i].index = wait_set.timer_index]
                   /\ fresh_idx' = fresh_idx \cup {i}
                   /\ UNCHANGED add_invalidated
                   /\ Continue("ss_register", i + 1)
         [] OTHER ->
              /\ UNCHANGED <<handles, wait_set, fresh_idx, add_invalidated>>
              /\ Return(RCL_RET_ERROR)

\* Line 479: rcl_wait.  On success or timeout the slots that are not ready are
\* set to NULL; a wait that fails leaves every registered slot as it is.  A
\* subscription with a message queued is ready; one without may be reported
\* ready all the same.  The return value is overwritten on line 481.
Wait(failed, sub_ready, timer_ready) ==
  /\ pc = "ss_wait"
  /\ \A k \in DOMAIN wait_set.subscriptions :
        (wait_set.subscriptions[k] # NULL /\ queue[wait_set.subscriptions[k]] # <<>>)
           => sub_ready[k]
  /\ IF failed
     THEN /\ UNCHANGED wait_set
          /\ wait_rc' = RCL_RET_ERROR
     ELSE /\ wait_set' =
               [wait_set EXCEPT
                  !.subscriptions = [k \in DOMAIN @ |-> IF sub_ready[k] THEN @[k] ELSE NULL],
                  !.timers = [k \in DOMAIN @ |-> IF timer_ready[k] THEN @[k] ELSE NULL]]
          /\ wait_rc' = IF \/ \E k \in DOMAIN wait_set.subscriptions :
                                  wait_set.subscriptions[k] # NULL /\ sub_ready[k]
                           \/ \E n \in DOMAIN wait_set.timers :
                                  wait_set.timers[n] # NULL /\ timer_ready[n]
                        THEN RCL_RET_OK ELSE RCL_RET_TIMEOUT
  /\ Continue("ss_read", 0)
  /\ UNCHANGED <<context, handles, max_handles, index, allocator, timeout_ns, info>>
  /\ UNCHANGED <<envQueue, lastOp, round_calls, da_set, phase2_pub, fresh_idx,
                 leaked, lifecycle, add_invalidated, timeout_arg, take_failed,
                 intake_err, msgHist>>

\* ------------------------------------------------- _rcle_read_input_data
\* "initialize status"
KeepDataAvailable(h) == h

ResetDataAvailable(h) == [h EXCEPT !.data_available = FALSE]

\* wait_set->subscriptions[index] / wait_set->timers[index] is not NULL
SlotReady(slots, idx) == (idx + 1) \in DOMAIN slots /\ slots[idx + 1] # NULL

\* The outcomes rcl_take can have for subscription sub: a message only when
\* one is queued.
TakeOutcomes(sub) ==
  IF queue[sub] # <<>> THEN {RCL_RET_OK, RCL_RET_ERROR}
  ELSE {RCL_RET_SUBSCRIPTION_TAKE_FAILED, RCL_RET_ERROR}

\* The handle after _rcle_read_input_data, the value returned, whether a
\* message was taken from the queue and whether data_available was set.
\* take: what rcl_take returns; chk: what rcl_timer_is_ready reports
\* ("ready", "not_ready" or "error").
rcle_read_input_data(h0, take, chk) ==
  LET h == ResetDataAvailable(h0) IN
  CASE h.type = SUBSCRIPTION ->
         IF SlotReady(wait_set.subscriptions, h.index)
         THEN IF take # RCL_RET_OK
              THEN [h |-> h, rc |-> take, took |-> FALSE, set |-> FALSE]
              ELSE [h |-> [h EXCEPT !.data = Head(queue[h.subscription]),
                                    !.data_available = TRUE],
                    rc |-> RCL_RET_OK, took |-> TRUE, set |-> TRUE]
         ELSE [h |-> h, rc |-> RCL_RET_OK, took |-> FALSE, set |-> FALSE]
    [] h.type = TIMER ->
         IF SlotReady(wait_set.timers, h.index)
         THEN IF chk = "error"
              THEN [h |-> h, rc |-> RCL_RET_ERROR, took |-> FALSE, set |-> FALSE]
              ELSE IF chk = "ready"
              THEN [h |-> [h EXCEPT !.data_available = TRUE],
                    rc |-> RCL_RET_OK, took |-> FALSE, set |-> TRUE]
              ELSE [h |-> h, rc |-> RCL_RET_ERROR, took |-> FALSE, set |-> FALSE]
         ELSE [h |-> h, rc |-> RCL_RET_OK, took |-> FALSE, set |-> FALSE]
    [] OTHER -> [h |-> h, rc |-> RCL_RET_ERROR, took |-> FALSE, set |-> FALSE]

\* Line 381: the results of _rcle_read_input_data on which the round is
\* left.
IntakeAbortsOnNoData(rc) == rc # RCL_RET_OK

IntakeNeverAborts(rc) == FALSE

IntakeAborts(rc) ==
  (rc # RCL_RET_OK) /\ (rc # RCL_RET_SUBSCRIPTION_TAKE_FAILED)

\* Lines 379-384: one iteration of the intake loop of _rcle_let_scheduling,
\* or its end.
ReadInput(take, chk) ==
  /\ pc = "ss_read"
  /\ UNCHANGED <<context, max_handles, index, allocator, timeout_ns, info,
                 wait_set, next_msg, lastOp, round_calls, phase2_pub, wait_rc,
                 fresh_idx, leaked, lifecycle, add_invalidated, timeout_arg>>
  /\ IF ~LoopCond(i)
     THEN /\ UNCHANGED <<handles, queue, da_set, take_failed, intake_err,
                         msgHist>>
          /\ Continue("ss_exec", 0)
     ELSE /\ handles[i].type = SUBSCRIPTION => take \in TakeOutcomes(handles[i].subscription)
          /\ LET r == rcle_read_input_data(handles[i], take, chk) IN
             /\ handles' = [handles EXCEPT ![i] = r.h]
             /\ queue' = IF r.took
                         THEN [queue EXCEPT ![handles[i].subscription] = Tail(@)]
                         ELSE queue
             /\ da_set' = IF r.set THEN da_set \cup {i} ELSE da_set
             \* a message taken for this handle and not passed to its
             \* callback is given up when the flag is reset (line 258)
             /\ LET dropped == {p \in undelivered : p.h = i}
                    taken == IF r.took /\ handles[i].invocation = ON_NEW_DATA
                             THEN {[h |-> i, m |-> r.h.data]} ELSE {}
                IN /\ lost' = lost \cup {p.m : p \in dropped}
                   /\ undelivered' = (undelivered \ dropped) \cup taken
             /\ take_failed' = IF r.rc = RCL_RET_SUBSCRIPTION_TAKE_FAILED
                               THEN take_failed \cup {i} ELSE take_failed
             /\ intake_err' =
                  IF r.rc \notin {RCL_RET_OK, RCL_RET_SUBSCRIPTION_TAKE_FAILED}
                  THEN r.rc ELSE intake_err
             /\ IF IntakeAborts(r.rc)
                THEN Return(r.rc)
                ELSE Continue("ss_read", i + 1)

\* ----------------------------------------------------------- _rcle_execute
\* "determine, if callback shall be called"
InvokeOnNewDataOnly(h) == h.invocation = ON_NEW_DATA /\ h.data_available = TRUE

InvokeAlwaysOnly(h) == h.invocation = ALWAYS

InvokeCallback(h) ==
  \/ (h.invocation = ON_NEW_DATA /\ h.data_available = TRUE)
  \/ h.invocation = ALWAYS

\* The entry the k-th iteration of the execution loop works on.
ExecSlotReversed(k) == index - 1 - k

ExecSlot(k) == k

\* What the subscription callback is called with: handles[i].data.
CallbackArgFromQueue(k) ==
  IF queue[handles[k].subscription] # <<>>
  THEN Head(queue[handles[k].subscription]) ELSE handles[k].data

CallbackArg(k) == handles[k].data

\* The callback of entry k runs and may publish one message (pub is the
\* subscription it publishes on, or NULL).
CallbackPublishes(k, pub) ==
  IF pub = NULL
  THEN UNCHANGED <<queue, next_msg, phase2_pub>>
  ELSE /\ next_msg <= MaxMsgs
       /\ queue' = [queue EXCEPT ![pub] = Append(@, next_msg)]
       /\ next_msg' = next_msg + 1
       /\ phase2_pub' = phase2_pub \cup {[m |-> next_msg, by |-> k]}

\* Lines 392-394: the results of _rcle_execute on which the round is left.
ExecuteNeverAborts(rc) == FALSE

ExecuteAborts(rc) == rc # RCL_RET_OK

\* Lines 390-395: one iteration of the execution loop of
\* _rcle_let_scheduling, or its end.  call_ok: rcl_timer_call succeeds.
Execute(call_ok, pub) ==
  /\ pc = "ss_exec"
  /\ UNCHANGED <<context, handles, max_handles, index, allocator, timeout_ns,
                 info, wait_set, lastOp, da_set, wait_rc, fresh_idx, leaked,
                 lifecycle, timeout_arg, take_failed, intake_err, lost>>
  /\ IF ~LoopCond(i)
     THEN /\ UNCHANGED <<queue, next_msg, phase2_pub, round_calls, undelivered>>
          /\ add_invalidated' = FALSE
          /\ Return(RCL_RET_OK)
     ELSE LET k == ExecSlot(i)
              h == handles[k]
          IN /\ UNCHANGED add_invalidated
             /\ IF ~InvokeCallback(h)
                THEN /\ UNCHANGED <<queue, next_msg, phase2_pub, round_calls,
                                     undelivered>>
                     /\ Continue("ss_exec", i + 1)
                ELSE CASE h.type = SUBSCRIPTION ->
                            /\ round_calls' = Append(round_calls,
                                  [h |-> k, data |-> CallbackArg(k), ok |-> TRUE])
                            /\ undelivered' = undelivered \
                                  {[h |-> k, m |-> CallbackArg(k)]}
                            /\ CallbackPublishes(k, pub)
                            /\ Continue("ss_exec", i + 1)
                       [] h.type = TIMER ->
                            LET rc == IF call_ok THEN RCL_RET_OK
                                      ELSE RCL_RET_ERROR
                            IN /\ round_calls' = Append(round_calls,
                                     [h |-> k, data |-> 0, ok |-> call_ok])
                               /\ UNCHANGED undelivered
                               /\ IF call_ok
                                  THEN CallbackPublishes(k, pub)
                                  ELSE UNCHANGED <<queue, next_msg, phase2_pub>>
                               /\ IF ExecuteAborts(rc)
                                  THEN Return(rc)
                                  ELSE Continue("ss_exec", i + 1)
                       [] OTHER ->
                            /\ UNCHANGED <<queue, next_msg, phase2_pub, round_calls,
                                           undelivered>>
                            /\ Return(RCL_RET_ERROR)

\* ---------------------------------------------------------- spin_one_period
\* Lines 518-526: latch invocation_time when it is 0, then call spin_some
\* with the executor's timeout.  The rest of the function is in Return.
SpinOnePeriodBegin(p) ==
  \* the clock and the history counters are cut off at MaxTime
  /\ (IF invocation_time = 0 THEN now ELSE invocation_time) + p <= MaxTime
  /\ period_sum_all + p <= MaxTime
  /\ invocation_time' = IF invocation_time = 0 THEN now ELSE invocation_time
  /\ period' = p
  /\ timeout_arg' = timeout_ns
  /\ stack' = Append(stack, "spin_one_period")
  /\ pc' = "ss_begin"
  /\ lastRet' = RUNNING
  /\ period_start' = IF invocation_time = 0 THEN now ELSE period_start
  /\ period_sum_all' = period_sum_all + p
  /\ UNCHANGED <<context, handles, max_handles, index, allocator, timeout_ns,
                 info, wait_set, i, ret, envVars, fresh_idx, leaked, lifecycle,
                 add_invalidated, period_sum_ok, spin_err, msgHist>>

rcle_let_executor_spin_one_period(p) ==
  /\ pc = "idle"
  /\ Called("spin_one_period")
  /\ UNCHANGED period_ret
  /\ SpinOnePeriodBegin(p)

\* --------------------------------------------------------------- spin_period
\* Line 544 onwards: the loop is entered.
rcle_let_executor_spin_period(p) ==
  /\ pc = "idle"
  /\ Called("spin_period")
  \* the clock and the history counters are cut off at MaxTime
  /\ (IF invocation_time = 0 THEN now ELSE invocation_time) + p <= MaxTime
  /\ period_sum_all + p <= MaxTime
  /\ period' = p
  /\ stack' = <<"spin_period">>
  /\ pc' = "period_loop"
  /\ lastRet' = RUNNING
  /\ period_ret' = "none"
  /\ UNCHANGED <<execVars, i, timeout_arg, ret, envVars, fresh_idx, leaked,
                 lifecycle, add_invalidated, periodHist, spin_err, msgHist>>

\* Lines 544-548: the loop condition; the next period, or the return.
SpinPeriodLoop ==
  /\ pc = "period_loop"
  /\ UNCHANGED <<lastOp, period_ret>>
  /\ IF rcl_context_is_valid(context)
     THEN /\ NewRound
          /\ SpinOnePeriodBegin(period)
     ELSE /\ pc' = "idle"
          /\ stack' = <<>>
          /\ lastRet' = RCL_RET_OK
          /\ UNCHANGED <<execVars, i, period, timeout_arg, ret, envVars,
                         roundHist, fresh_idx, leaked, lifecycle,
                         add_invalidated, periodHist, spin_err, msgHist>>

\* ---------------------------------------------------------------------- spin
\* The timeout spin passes to spin_some (line 498).
SpinTimeout == timeout_ns

\* Lines 494-496: the loop is entered.
rcle_let_executor_spin ==
  /\ pc = "idle"
  /\ Called("spin")
  /\ pc' = "spin_loop"
  /\ stack' = <<"spin">>
  /\ ret' = RCL_RET_OK
  /\ lastRet' = RUNNING
  /\ spin_err' = "none"
  /\ UNCHANGED <<execVars, i, period, timeout_arg, envVars, fresh_idx, leaked,
                 lifecycle, add_invalidated, periodHist, period_ret, msgHist>>

\* Line 497: the loop condition; the next round, or the return of ret.
SpinLoop ==
  /\ pc = "spin_loop"
  /\ IF rcl_context_is_valid(context)
     THEN /\ pc' = "ss_begin"
          /\ stack' = stack
          /\ timeout_arg' = SpinTimeout
          /\ lastRet' = RUNNING
          /\ NewRound
     ELSE /\ pc' = "idle"
          /\ stack' = <<>>
          /\ lastRet' = ret
          /\ UNCHANGED <<timeout_arg, roundHist>>
  /\ UNCHANGED <<execVars, i, period, ret, envVars, lastOp, fresh_idx, leaked,
                 lifecycle, add_invalidated, periodHist, loopHist, msgHist>>

\* The execution context is shut down (rcl_shutdown), by a callback, a
\* signal handler or another thread, at any moment.
Shutdown ==
  /\ ctx_valid
  /\ ctx_valid' = FALSE
  /\ UNCHANGED <<execVars, ctlVars, envQueue, now, histVars>>

\* The system clock advances.
Tick ==
  /\ now < MaxTime
  /\ now' = now + 1
  /\ UNCHANGED <<execVars, ctlVars, envQueue, ctx_valid, histVars>>

\* ------------------------------------------------------------ specifications
Invocations == {ON_NEW_DATA, ALWAYS}
ReadyFlags(slots) == [DOMAIN slots -> BOOLEAN]

TakeResults == {RCL_RET_OK, RCL_RET_SUBSCRIPTION_TAKE_FAILED, RCL_RET_ERROR}
TimerChecks == {"ready", "not_ready", "error"}

\* The steps of a spin_some in progress.
SpinSomeSteps ==
  \/ \E reg_ok \in BOOLEAN : RegisterHandle(reg_ok)
  \/ \E failed \in BOOLEAN, sr \in ReadyFlags(wait_set.subscriptions),
        tr \in ReadyFlags(wait_set.timers) : Wait(failed, sr, tr)
  \/ \E take \in TakeResults, chk \in TimerChecks : ReadInput(take, chk)
  \/ \E call_ok \in BOOLEAN, pub \in SubRefs \cup {NULL} : Execute(call_ok, pub)

\* The executor used with valid arguments, with publishers around it.
Next ==
  \/ \E n \in 1..MaxHandles, alloc_ok \in BOOLEAN :
        rcle_let_executor_init(n, TRUE, alloc_ok)
  \/ rcle_let_executor_fini
  \/ \E sub \in SubRefs, inv \in Invocations :
        rcle_let_executor_add_subscription(sub, inv, TRUE)
  \/ \E timer \in TimerRefs : rcle_let_executor_add_timer(timer, TRUE)
  \/ \E create_ok \in BOOLEAN, clear_ok \in BOOLEAN :
        rcle_let_executor_spin_some(create_ok, clear_ok)
  \/ SpinSomeSteps
  \/ \E s \in SubRefs : Publish(s)

Spec == Init /\ [][Next]_vars

\* The life cycle of the executor, invalid arguments and set_timeout
\* included; no messages are published.
NextLifecycle ==
  \/ \E n \in 0..MaxHandles, alloc_ok \in BOOLEAN :
        rcle_let_executor_init(n, TRUE, alloc_ok)
  \/ rcle_let_executor_init(1, FALSE, TRUE)
  \/ \E t \in OtherTimeouts : rcle_let_executor_set_timeout(t)
  \/ rcle_let_executor_fini
  \/ \E sub \in SubRefs, inv \in Invocations, args_ok \in BOOLEAN :
        rcle_let_executor_add_subscription(sub, inv, args_ok)
  \/ \E timer \in TimerRefs, args_ok \in BOOLEAN :
        rcle_let_executor_add_timer(timer, args_ok)
  \/ \E create_ok \in BOOLEAN, clear_ok \in BOOLEAN :
        rcle_let_executor_spin_some(create_ok, clear_ok)
  \/ \E reg_ok \in BOOLEAN : RegisterHandle(reg_ok)
  \/ \E failed \in BOOLEAN, sr \in ReadyFlags(wait_set.subscriptions),
        tr \in ReadyFlags(wait_set.timers) : Wait(failed, sr, tr)
  \/ \E take \in TakeResults, chk \in TimerChecks : ReadInput(take, chk)
  \/ \E call_ok \in BOOLEAN : Execute(call_ok, NULL)

SpecLifecycle == Init /\ [][NextLifecycle]_vars

\* The executor with collaborators that never fail: the allocator, the
\* Readiness Provider, the subscriptions and the timers always succeed.
NextHealthy ==
  \/ \E n \in 1..MaxHandles : rcle_let_executor_init(n, TRUE, TRUE)
  \/ rcle_let_executor_fini
  \/ \E sub \in SubRefs, inv \in Invocations :
        rcle_let_executor_add_subscription(sub, inv, TRUE)
  \/ \E timer \in TimerRefs : rcle_let_executor_add_timer(timer, TRUE)
  \/ rcle_let_executor_spin_some(TRUE, TRUE)
  \/ RegisterHandle(TRUE)
  \/ \E sr \in ReadyFlags(wait_set.subscriptions),
        tr \in ReadyFlags(wait_set.timers) : Wait(FALSE, sr, tr)
  \/ \E take \in {RCL_RET_OK, RCL_RET_SUBSCRIPTION_TAKE_FAILED} :
        ReadInput(take, "ready")
  \/ \E pub \in SubRefs \cup {NULL} : Execute(TRUE, pub)
  \/ \E s \in SubRefs : Publish(s)

SpecHealthy == Init /\ [][NextHealthy]_vars

\* The periodic driver, with the clock; no messages are published.
NextPeriod ==
  \/ \E n \in 1..MaxHandles, alloc_ok \in BOOLEAN :
        rcle_let_executor_init(n, TRUE, alloc_ok)
  \/ rcle_let_executor_fini
  \/ \E timer \in TimerRefs : rcle_let_executor_add_timer(timer, TRUE)
  \/ \E p \in 1..MaxPeriod : rcle_let_executor_spin_one_period(p)
  \/ \E create_ok \in BOOLEAN, clear_ok \in BOOLEAN :
        SpinSomeEntered(create_ok, clear_ok)
  \/ \E reg_ok \in BOOLEAN : RegisterHandle(reg_ok)
  \/ \E failed \in BOOLEAN, sr \in ReadyFlags(wait_set.subscriptions),
        tr \in ReadyFlags(wait_set.timers) : Wait(failed, sr, tr)
  \/ \E take \in TakeResults, chk \in TimerChecks : ReadInput(take, chk)
  \/ \E call_ok \in BOOLEAN : Execute(call_ok, NULL)
  \/ Tick

SpecPeriod == Init /\ [][NextPeriod]_vars

\* The endless driver spin, with a context that can be shut down; every
\* collaborator can fail.
NextSpin ==
  \/ \E n \in 1..MaxHandles : rcle_let_executor_init(n, TRUE, TRUE)
  \/ \E t \in OtherTimeouts : rcle_let_executor_set_timeout(t)
  \/ \E sub \in SubRefs, inv \in Invocations :
        rcle_let_executor_add_subscription(sub, inv, TRUE)
  \/ \E timer \in TimerRefs : rcle_let_executor_add_timer(timer, TRUE)
  \/ rcle_let_executor_spin
  \/ SpinLoop
  \/ \E create_ok \in BOOLEAN, clear_ok \in BOOLEAN :
        SpinSomeEntered(create_ok, clear_ok)
  \/ \E reg_ok \in BOOLEAN : RegisterHandle(reg_ok)
  \/ \E failed \in BOOLEAN, sr \in ReadyFlags(wait_set.subscriptions),
        tr \in ReadyFlags(wait_set.timers) : Wait(failed, sr, tr)
  \/ \E take \in TakeResults, chk \in TimerChecks : ReadInput(take, chk)
  \/ \E call_ok \in BOOLEAN : Execute(call_ok, NULL)
  \/ Shutdown

SpecSpin == Init /\ [][NextSpin]_vars

\* The endless periodic driver spin_period, with a context that can be shut
\* down; every collaborator can fail; no messages are published.
NextSpinPeriod ==
  \/ \E n \in 1..MaxHandles : rcle_let_executor_init(n, TRUE, TRUE)
  \/ \E timer \in TimerRefs : rcle_let_executor_add_timer(timer, TRUE)
  \/ \E p \in 1..MaxPeriod : rcle_let_executor_spin_period(p)
  \/ SpinPeriodLoop
  \/ \E create_ok \in BOOLEAN, clear_ok \in BOOLEAN :
        SpinSomeEntered(create_ok, clear_ok)
  \/ \E reg_ok \in BOOLEAN : RegisterHandle(reg_ok)
  \/ \E failed \in BOOLEAN, sr \in ReadyFlags(wait_set.subscriptions),
        tr \in ReadyFlags(wait_set.timers) : Wait(failed, sr, tr)
  \/ \E take \in TakeResults, chk \in TimerChecks : ReadInput(take, chk)
  \/ \E call_ok \in BOOLEAN : Execute(call_ok, NULL)
  \/ Shutdown

SpecSpinPeriod == Init /\ [][NextSpinPeriod]_vars

\* ====================================================================== claims
AddNames == {"add_subscription", "add_timer"}

\* A step that is a call of one of the add functions.
AddStep == pc = "idle" /\ lastOp' \in AddNames /\ UNCHANGED envVars

\* The entries of the handle table in use.
Used == {k \in DOMAIN handles : handles[k].initialized}

\* How often entry k was invoked in the round recorded in round_calls.
Count(k) == Cardinality({n \in DOMAIN round_calls : round_calls[n].h = k})
Invoked(k) == Count(k) > 0

\* spin_some has returned from a call that reached the scheduling round.
RoundOver == lastOp = "spin_some" /\ pc = "idle" /\ wait_rc # "none"

\* C1: with the table allocated, an add call with valid arguments succeeds
\* and fills entry index exactly while index < max_handles, so that the first
\* max_handles calls after init succeed; every add call at index >=
\* max_handles fails and leaves index, the counts, every entry and the
\* wait-set unchanged.
C1_AddUpToCapacity ==
  /\ [](handles # NullHandles => index <= max_handles)
  /\ [][AddStep /\ lastRet' # RCL_RET_INVALID_ARGUMENT =>
          /\ (index >= max_handles =>
                /\ lastRet' = RCL_RET_ERROR
                /\ UNCHANGED <<index, info, handles, wait_set>>)
          /\ (index < max_handles /\ handles # NullHandles =>
                /\ lastRet' = RCL_RET_OK
                /\ index' = index + 1
                /\ handles'[index].initialized
                /\ \A k \in DOMAIN handles : k # index => handles'[k] = handles[k])
       ]_vars

C1_Witness ==
  /\ pc = "idle"
  /\ lastOp \in AddNames
  /\ lastRet = RCL_RET_ERROR
  /\ handles # NullHandles
  /\ max_handles = MaxHandles
  /\ index = max_handles
  /\ {handles[k].type : k \in DOMAIN handles} = {SUBSCRIPTION, TIMER}

\* C2: in every round the callbacks are invoked in the order of the table,
\* which is the order of registration: the entries invoked so far form a
\* strictly increasing sequence.
C2_RegistrationOrder ==
  \A a, b \in DOMAIN round_calls :
     a < b => round_calls[a].h < round_calls[b].h

C2_Witness ==
  /\ Len(round_calls) >= 2
  /\ \E k \in Used : k \notin da_set

\* C3 as stated: at the end of any round an OnNewData handle has been invoked
\* if and only if its data_available was set during the round's intake.
C3_Original ==
  RoundOver =>
    \A k \in Used :
       handles[k].invocation = ON_NEW_DATA => (Invoked(k) <=> k \in da_set)

\* C3 as amended: an OnNewData handle is invoked only if its data_available
\* was set true during the same round's intake, and in a round that runs to
\* its end (spin_some returns success) it is invoked if and only if so.
C3_OnNewData ==
  /\ \A k \in Used :
        handles[k].invocation = ON_NEW_DATA /\ Invoked(k) => k \in da_set
  /\ RoundOver /\ lastRet = RCL_RET_OK =>
        \A k \in Used :
           handles[k].invocation = ON_NEW_DATA => (Invoked(k) <=> k \in da_set)

C3_Witness ==
  /\ RoundOver
  /\ lastRet = RCL_RET_OK
  /\ \E k \in Used : handles[k].invocation = ON_NEW_DATA /\ Invoked(k)
  /\ \E k \in Used : handles[k].invocation = ON_NEW_DATA /\ ~Invoked(k)

\* A timer call before entry k failed in the round.
FailedCallBefore(k) ==
  \E n \in DOMAIN round_calls : ~round_calls[n].ok /\ round_calls[n].h < k

\* The round ended in its intake phase: an error and no failed call.
IntakeAborted ==
  /\ lastRet # RCL_RET_OK
  /\ \A n \in DOMAIN round_calls : round_calls[n].ok

\* C4 as stated: an Always handle is invoked exactly once in every round.
C4_Original ==
  RoundOver =>
    \A k \in Used : handles[k].invocation = ALWAYS => Count(k) = 1

\* C4 as amended: an Always handle is invoked at most once in a round, and
\* exactly once in every round whose intake completes and in which no timer
\* call before it in the table fails, ready or not, data or not.
C4_Always ==
  /\ \A k \in Used : Count(k) <= 1
  /\ RoundOver =>
       \A k \in Used :
          handles[k].invocation = ALWAYS =>
             (Count(k) = 1 \/ IntakeAborted \/ FailedCallBefore(k))

C4_Witness ==
  /\ RoundOver
  /\ \E k \in Used :
        /\ handles[k].invocation = ALWAYS
        /\ Count(k) = 1
        /\ k \notin da_set
        /\ ~SlotReady(wait_set.subscriptions, handles[k].index)

\* The messages in the queue of subscription s.
Queued(s) == {queue[s][n] : n \in DOMAIN queue[s]}

\* C5: a message published by a callback during phase 2 of a round stays in
\* the queue for the rest of that round: no data slot holds it, no callback
\* invoked in the round is called with it, and an OnNewData callback invoked
\* in the round was triggered by the data taken in the round's intake.
C5_LetIsolation ==
  /\ \A p \in phase2_pub :
        /\ \E s \in SubRefs : p.m \in Queued(s)
        /\ \A k \in Used : handles[k].data # p.m
        /\ \A n \in DOMAIN round_calls : round_calls[n].data # p.m
  /\ \A n \in DOMAIN round_calls :
        LET k == round_calls[n].h IN
          handles[k].type = SUBSCRIPTION =>
            /\ round_calls[n].data = handles[k].data
            /\ handles[k].invocation = ON_NEW_DATA => k \in da_set

\* Handle A has published for subscription handle B, which ran later in the
\* same round.
C5_Witness ==
  \E p \in phase2_pub, n \in DOMAIN round_calls :
     LET k == round_calls[n].h IN
       /\ p.by < k
       /\ handles[k].type = SUBSCRIPTION
       /\ p.m \in Queued(handles[k].subscription)

\* The index of every handle in use was assigned since the wait-set was last
\* built or cleared, and lies within the slots of its kind.
IndicesFresh ==
  /\ rcl_wait_set_is_valid(wait_set)
  /\ \A k \in Used :
        /\ k \in fresh_idx
        /\ handles[k].type = SUBSCRIPTION =>
              (handles[k].index + 1) \in DOMAIN wait_set.subscriptions
        /\ handles[k].type = TIMER =>
              (handles[k].index + 1) \in DOMAIN wait_set.timers

\* C6: an add that succeeds leaves the wait-set absent, and whenever
\* spin_some waits, reads input or executes, the wait-set is valid and every
\* handle's index was assigned on it after it was last built or cleared.
C6_RebuildAfterAdd ==
  /\ [][AddStep /\ lastRet' = RCL_RET_OK => ~rcl_wait_set_is_valid(wait_set')]_vars
  /\ [](pc \in {"ss_wait", "ss_read", "ss_exec"} => IndicesFresh)

\* Intake reads the index of a handle that was added while a wait-set was
\* valid.
C6_Witness ==
  /\ pc = "ss_read"
  /\ add_invalidated
  /\ index >= 2
  /\ i = index - 1

\* The executor of the end-to-end scenario: capacity 2, a timer and an
\* OnNewData subscription.
TimerSlot == CHOOSE k \in Used : handles[k].type = TIMER
SubSlot == CHOOSE k \in Used : handles[k].type = SUBSCRIPTION
E2E ==
  /\ max_handles = 2
  /\ index = 2
  /\ {handles[k].type : k \in Used} = {TIMER, SUBSCRIPTION}
  /\ handles[SubSlot].invocation = ON_NEW_DATA

FiniStep == pc = "idle" /\ lastOp' = "fini" /\ UNCHANGED envVars

\* C8: fini on a zero-initialized executor, or on one on which fini has
\* returned and that has not been initialized since, returns success and
\* changes no field of the executor.
C8_FiniIdempotent ==
  [][FiniStep /\ lifecycle \in {"zero", "finalized"} =>
        lastRet' = RCL_RET_OK /\ UNCHANGED execVars]_vars

\* fini has returned on a finalized executor on which spin_some had built a
\* wait-set, and has left it as it was.
C8_Witness ==
  /\ pc = "idle"
  /\ lastOp = "fini"
  /\ lastRet = RCL_RET_OK
  /\ lifecycle = "finalized"
  /\ rcl_wait_set_is_valid(wait_set)

\* C9: whenever fini has returned, the handle table is released, index and
\* the counts are zero, the wait-set is absent and no wait-set created by
\* this executor is still alive.
C9_FiniReleasesAll ==
  pc = "idle" /\ lastOp = "fini" =>
     /\ handles = NullHandles
     /\ index = 0
     /\ info = rcle_handle_size_zero_init
     /\ ~rcl_wait_set_is_valid(wait_set)
     /\ ~leaked

\* C10 as stated: after every call of spin_one_period that ran a round,
\* whatever the round's result, invocation_time is the latched start time
\* plus the periods of all calls.
C10_Original ==
  pc = "idle" /\ lastOp = "spin_one_period" /\ wait_rc # "none" =>
     invocation_time = period_start + period_sum_all

\* C10 as amended: invocation_time is the latched start time plus the
\* periods of the calls whose round returned success; a call whose spin_some
\* fails returns the error and does not advance it.
C10_InvocationTime ==
  /\ invocation_time = period_start + period_sum_ok
  /\ pc = "idle" /\ lastOp = "spin_one_period" /\ lastRet # RCL_RET_OK =>
        invocation_time < period_start + period_sum_all

\* Two periods have been advanced although the clock was past the period
\* boundary when the last round ended, and one call has failed.
C10_Witness ==
  /\ pc = "idle"
  /\ lastOp = "spin_one_period"
  /\ lastRet = RCL_RET_OK
  /\ period_start > 0
  /\ period_sum_ok >= 2
  /\ period_sum_all > period_sum_ok
  /\ now > invocation_time

\* spin is running: it has been called and has not returned.
InSpin == stack = <<"spin">>

\* The positions inside a round of spin_some.
RoundPcs == {"ss_begin", "ss_register", "ss_wait", "ss_read", "ss_exec"}

\* C11: spin starts a round only from its loop condition, only while the
\* context is valid and with the executor's timeout_ns; at the loop condition
\* with a valid context the next thing it does is start a round; a round
\* once started is left only at its end, whatever happens to the context;
\* spin returns either at the loop condition with the context invalid (with
\* success) or straight from the first round whose result is neither success
\* nor timeout, with that result, so that no round follows it.
C11_Spin ==
  /\ [][InSpin /\ pc' = "ss_begin" /\ pc # "ss_begin" =>
          /\ pc = "spin_loop"
          /\ rcl_context_is_valid(context)
          /\ timeout_arg' = timeout_ns]_vars
  /\ [][InSpin /\ pc = "spin_loop" /\ rcl_context_is_valid(context)
          /\ pc' # pc => pc' = "ss_begin"]_vars
  /\ [][InSpin /\ pc \in RoundPcs /\ pc' \notin RoundPcs =>
          \/ pc' = "spin_loop" /\ ret' \in {RCL_RET_OK, RCL_RET_TIMEOUT}
          \/ pc' = "idle" /\ spin_err = "none" /\ spin_err' # "none"
                /\ lastRet' = spin_err'
          \/ pc' = "crashed"]_vars
  /\ [][InSpin /\ pc = "spin_loop" /\ pc' = "idle" =>
          ~rcl_context_is_valid(context) /\ lastRet' = RCL_RET_OK]_vars
  /\ [](lastOp = "spin" /\ spin_err # "none" =>
          pc = "idle" /\ lastRet = spin_err)
  /\ [](InSpin /\ pc \in RoundPcs => timeout_arg = timeout_ns)

\* spin has run a round to its end and a second one up to phase 2 although
\* the context was shut down during that round, which then failed: spin has
\* returned the failure.
C11_Witness ==
  /\ pc = "idle"
  /\ lastOp = "spin"
  /\ lastRet = RCL_RET_ERROR
  /\ spin_err = RCL_RET_ERROR
  /\ ~ctx_valid
  /\ timeout_ns = 0
  /\ Len(round_calls) >= 1

\* spin_period is running: it has been called and has not returned.
InSpinPeriod == stack # <<>> /\ stack[1] = "spin_period"

\* C12: spin_period returns only from its loop condition, only when the
\* context is not valid, and always with success; at the loop condition with
\* a valid context the next thing it does is call spin_one_period with the
\* same period, whatever the period before returned; a period that ends,
\* with an error or not, leads back to the loop condition.
C12_SpinPeriod ==
  /\ [][InSpinPeriod /\ pc' = "idle" =>
          /\ pc = "period_loop"
          /\ ~rcl_context_is_valid(context)
          /\ lastRet' = RCL_RET_OK]_vars
  /\ [][InSpinPeriod /\ pc = "period_loop" /\ rcl_context_is_valid(context)
          /\ pc' # pc =>
          /\ pc' = "ss_begin"
          /\ period' = period
          /\ stack' = <<"spin_period", "spin_one_period">>]_vars
  /\ [][InSpinPeriod /\ pc \in RoundPcs /\ pc' \notin RoundPcs =>
          pc' \in {"period_loop", "crashed"}]_vars
  /\ [](lastOp = "spin_period" /\ pc = "idle" => lastRet = RCL_RET_OK)

\* spin_period has returned success after the context was shut down; one of
\* its periods had failed and the period after that one succeeded.
C12_Witness ==
  /\ pc = "idle"
  /\ lastOp = "spin_period"
  /\ lastRet = RCL_RET_OK
  /\ ~ctx_valid
  /\ period_ret = RCL_RET_OK
  /\ period_sum_ok > 0
  /\ period_sum_all > period_sum_ok

\* C13: when spin_some has returned success, no collaborator call of the
\* round reported a fatal error: the wait returned success or a timeout and
\* no timer call failed.
C13_NoFatalSwallowed ==
  pc = "idle" /\ lastOp = "spin_some" /\ lastRet = RCL_RET_OK =>
     /\ wait_rc \in {RCL_RET_OK, RCL_RET_TIMEOUT}
     /\ \A n \in DOMAIN round_calls : round_calls[n].ok

\* C14: when spin_some has returned without having waited (the construction
\* or the clearing of the wait-set or a registration failed), it has returned
\* an error, no callback has run and the wait-set is absent.
C14_AbsentAfterSetupFailure ==
  pc = "idle" /\ lastOp = "spin_some" /\ wait_rc = "none" =>
     /\ lastRet # RCL_RET_OK
     /\ round_calls = <<>>
     /\ ~rcl_wait_set_is_valid(wait_set)

\* A timer call of the round has failed.
CallFailed == \E n \in DOMAIN round_calls : ~round_calls[n].ok

\* C15: a timer call that fails is the last invocation of its round:
\* spin_some has returned, with that failure; the step in which the call
\* fails leaves the invocations recorded before it, the data slots and the
\* queues (the messages the earlier callbacks published included) as they
\* were, and no handle is invoked twice in the round.
C15_TimerCallFails ==
  /\ [](CallFailed =>
          /\ ~round_calls[Len(round_calls)].ok
          /\ \A n \in 1..(Len(round_calls) - 1) : round_calls[n].ok
          /\ pc = "idle"
          /\ lastOp = "spin_some"
          /\ lastRet = RCL_RET_ERROR)
  /\ [](\A k \in Used : Count(k) <= 1)
  /\ [][~CallFailed /\ CallFailed' =>
          /\ SubSeq(round_calls', 1, Len(round_calls)) = round_calls
          /\ UNCHANGED <<handles, queue, phase2_pub>>]_vars

\* The timer in entry 0 was ready and its call failed; the Always
\* subscription behind it has not been invoked.
C15_Witness ==
  /\ pc = "idle"
  /\ lastOp = "spin_some"
  /\ lastRet = RCL_RET_ERROR
  /\ index = 2
  /\ handles[0].type = TIMER
  /\ handles[1].invocation = ALWAYS
  /\ Len(round_calls) = 1
  /\ round_calls[1].h = 0
  /\ ~round_calls[1].ok

\* C16: a subscription whose slot was ready and whose take reported no data
\* keeps data_available false and, when its policy is OnNewData, is not
\* invoked in the round; the round goes on behind it: spin_some fails only
\* if an intake step or a timer call fails, and when it succeeds phase 2
\* has run, every Always handle and every handle with data once.
C16_TakeFailed ==
  take_failed # {} =>
     /\ \A k \in take_failed :
           /\ ~handles[k].data_available
           /\ k \notin da_set
           /\ handles[k].invocation = ON_NEW_DATA => ~Invoked(k)
     /\ pc = "ss_read" => \A k \in take_failed : k < i
     /\ pc \in {"ss_read", "ss_exec", "idle"}
     /\ pc = "idle" =>
           /\ lastRet # RCL_RET_OK => (intake_err # "none" \/ CallFailed)
           /\ lastRet = RCL_RET_OK =>
                 \A k \in Used :
                    (handles[k].invocation = ALWAYS \/ k \in da_set)
                       => Count(k) = 1

\* The take of the OnNewData subscription in entry 0 reported no data
\* although its slot was ready; the Always handle behind it was invoked and
\* spin_some returned success.
C16_Witness ==
  /\ RoundOver
  /\ lastRet = RCL_RET_OK
  /\ take_failed = {0}
  /\ handles[0].invocation = ON_NEW_DATA
  /\ SlotReady(wait_set.subscriptions, handles[0].index)
  /\ index = 2
  /\ handles[1].invocation = ALWAYS
  /\ Len(round_calls) = 1
  /\ round_calls[1].h = 1

\* C17: when intake aborts, spin_some has returned, with the error of the
\* failing intake step, and no callback has been invoked in the round; and
\* whenever a callback has been invoked or phase 2 is running, the
\* data_available of every handle is the value this round's intake gave it.
C17_IntakeAborts ==
  /\ intake_err # "none" =>
        /\ round_calls = <<>>
        /\ pc = "idle"
        /\ lastOp = "spin_some"
        /\ lastRet = intake_err
        /\ lastRet # RCL_RET_OK
  /\ (pc = "ss_exec" \/ round_calls # <<>>) =>
        \A k \in Used : handles[k].data_available <=> k \in da_set

\* Intake was aborted by the timer in entry 0 while the subscription behind
\* it still had data_available set by an earlier round.
C17_Witness ==
  /\ pc = "idle"
  /\ lastOp = "spin_some"
  /\ intake_err = RCL_RET_ERROR
  /\ index = 2
  /\ handles[0].type = TIMER
  /\ handles[1].type = SUBSCRIPTION
  /\ handles[1].data_available
  /\ da_set = {}

\* The number of handles of type t among the entries below index.
Registered(t) ==
  Cardinality({k \in DOMAIN handles : k < index /\ handles[k].type = t})

\* C18: index <= max_handles, the table has the entries 0 .. max_handles-1,
\* the entries below index are initialized and those from index on are not.
C18_TableShape ==
  /\ index <= max_handles
  /\ DOMAIN handles = 0..(max_handles - 1)
  /\ \A k \in 0..(max_handles - 1) : handles[k].initialized <=> k < index

\* C19: the subscription count is the number of Subscription handles below
\* index, the timer count the number of Timer handles there, their sum is
\* index, and a wait-set that spin_some has built and filled has exactly one
\* slot per registered handle of each kind.
C19_CountsMatch ==
  /\ info.number_of_subscriptions = Registered(SUBSCRIPTION)
  /\ info.number_of_timers = Registered(TIMER)
  /\ info.number_of_subscriptions + info.number_of_timers = index
  /\ pc \in {"ss_wait", "ss_read", "ss_exec"} =>
        /\ Len(wait_set.subscriptions) = Registered(SUBSCRIPTION)
        /\ Len(wait_set.timers) = Registered(TIMER)

\* C20: the handle table is absent only together with max_handles = 0, and
\* no operation dereferences the absent table.
C20_SafeAfterAllocFailure ==
  /\ handles = NullHandles => max_handles = 0
  /\ pc # "crashed"

\* C21 as stated: no message that intake took for an OnNewData subscription
\* has been given up by a later round without having been passed to the
\* subscription's callback.
C21_Original == lost = {}

\* C21 as amended: a message that intake takes for an OnNewData subscription
\* stays in the handle's data slot, with data_available set, until it is
\* passed to the callback; a spin_some that returns success has passed on
\* every message taken; a round can end with a taken message not passed on
\* only when its intake aborted or a timer call failed, and the next intake
\* that reaches the handle gives that message up.
C21_TakenDelivered ==
  /\ \A p \in undelivered :
        /\ p.h \in Used
        /\ handles[p.h].invocation = ON_NEW_DATA
        /\ handles[p.h].data_available
        /\ handles[p.h].data = p.m
  /\ pc = "idle" /\ lastOp = "spin_some" /\ lastRet = RCL_RET_OK =>
        undelivered = {}
  /\ RoundOver /\ undelivered # {} => (intake_err # "none" \/ CallFailed)
  /\ \A m \in lost : \A p \in undelivered : p.m # m

\* A round took a message and was aborted by a failing timer call before the
\* subscription's callback; a later round, which returned success, has given
\* the message up without invoking the callback.
C21_Witness ==
  /\ RoundOver
  /\ lastRet = RCL_RET_OK
  /\ lost = {1}
  /\ undelivered = {}
  /\ round_calls = <<>>

====
